---- MODULE Spec2Model ----
(***************************************************************************)
(* The trust-score registry of BACKEND-BLOCK-ID: two Anchor programs,      *)
(* trust_oracle (solana_trust_oracle/lib.rs) and blockid_oracle            *)
(* (programs/blockid_oracle/src/lib.rs).  One behaviour runs one program:  *)
(* a sequence of transactions, each carrying one instruction, against the  *)
(* program's accounts, with the host clock advancing between them.         *)
(***************************************************************************)
EXTENDS Integers, FiniteSets, Sequences, TLC

\* prog: the program deployed; store: its allocated TrustScoreAccounts by
\* address; clock: the host clock; ncalls: transactions processed; last: the
\* latest transaction and its outcome; prior: the store as it was before it.
VARIABLES prog, store, clock, ncalls, last, prior

vars == <<prog, store, clock, ncalls, last, prior>>

(* ------------------------------ bounds --------------------------------- *)

\* Largest reading of the host clock (Clock::get()?.unix_timestamp).
MaxClock == 2

\* Number of transactions processed in one behaviour.
MaxCalls == 2

(* ------------------------- inputs and identities ----------------------- *)

Programs == {"trust_oracle", "blockid_oracle"}

Oracles == {"O1", "O2"}

Wallets == {"W1", "W2"}

\* Pubkey::default(), the all-zero key of a freshly allocated account.
DefaultPubkey == "11111111"

\* u8 instruction arguments: values on both sides of each boundary.
ScoreSamples == {100, 101}

RiskSamples == {0, 3, 4}

\* require!(trust_score <= 100, ...)
MaxTrustScore == 100

(* --------------------------- address derivation ------------------------ *)

FindProgramAddress_NoOracleSeed(oracle, wallet) == <<"trust_score", wallet>>

FindProgramAddress_NoWalletSeed(oracle, wallet) == <<"trust_score", oracle>>

\* seeds = [b"trust_score", oracle.key().as_ref(), wallet.key().as_ref()].
\* The three seeds have fixed widths (11, 32, 32 bytes), so the seed tuple
\* determines the hashed bytes and the derived address is identified with it.
FindProgramAddress(oracle, wallet) == <<"trust_score", oracle, wallet>>

Addresses == {FindProgramAddress(o, w) : o \in Oracles, w \in Wallets}

(* ------------------------------- RiskLevel ----------------------------- *)

\* Borsh deserialization of the #[repr(u8)] enum: the variant index byte.
RiskLevelDeserialize(b) ==
    CASE b = 0 -> "Low"
      [] b = 1 -> "Medium"
      [] b = 2 -> "High"
      [] b = 3 -> "Critical"
      [] OTHER -> "Invalid"

\* Borsh serialization of a RiskLevel: its variant index.
RiskLevelSerialize(r) ==
    CASE r = "Low" -> 0
      [] r = "Medium" -> 1
      [] r = "High" -> 2
      [] r = "Critical" -> 3

(* ------------------------------- accounts ------------------------------ *)

\* #[derive(Default)] TrustScoreAccount of each program, as laid out in the
\* account data (risk_level as its byte).
DefaultAccount(program) ==
    IF program = "trust_oracle"
    THEN [wallet_pubkey |-> DefaultPubkey, trust_score |-> 0, risk_level |-> 0,
          last_updated |-> 0, oracle_pubkey |-> DefaultPubkey]
    ELSE [wallet |-> DefaultPubkey, score |-> 0, risk |-> 0, updated_at |-> 0]

WithAccount_Replace(accounts, addr, acct) == [a \in {addr} |-> acct]

\* The accounts map with the account at addr set to acct.
WithAccount(accounts, addr, acct) ==
    [a \in (DOMAIN accounts) \cup {addr} |->
        IF a = addr THEN acct ELSE accounts[a]]

\* init_if_needed: an unallocated account is created with default contents,
\* an allocated one is loaded as it is.
InitIfNeeded(program, accounts, addr) ==
    IF addr \in DOMAIN accounts
    THEN accounts
    ELSE WithAccount(accounts, addr, DefaultAccount(program))

(* ---------------------------- update_trust_score ----------------------- *)

\* Deserialization of the instruction data (score: u8, risk): trust_oracle
\* takes a RiskLevel, blockid_oracle a plain u8.
DeserializeArgs(program, score, risk) ==
    IF program = "trust_oracle" /\ RiskLevelDeserialize(risk) = "Invalid"
    THEN "InstructionDidNotDeserialize"
    ELSE "Ok"

UpdateAccountsCheck_NoSigner(oracle, wallet, addr, signed) ==
    IF addr # FindProgramAddress(oracle, wallet) THEN "ConstraintSeeds" ELSE "Ok"

UpdateAccountsCheck_NoSeeds(oracle, wallet, addr, signed) ==
    IF ~signed THEN "AccountNotSigner" ELSE "Ok"

UpdateAccountsCheck_SeedsFirst(oracle, wallet, addr, signed) ==
    IF addr # FindProgramAddress(oracle, wallet) THEN "ConstraintSeeds"
    ELSE IF ~signed THEN "AccountNotSigner"
    ELSE "Ok"

\* Accounts validation of UpdateTrustScore: oracle is a Signer, and the
\* trust_score_account must be the address derived from (oracle, wallet).
UpdateAccountsCheck(oracle, wallet, addr, signed) ==
    IF ~signed THEN "AccountNotSigner"
    ELSE IF addr # FindProgramAddress(oracle, wallet) THEN "ConstraintSeeds"
    ELSE "Ok"

ValidTrustScore_U8(trust_score) == trust_score <= 255

\* require!(trust_score <= 100, TrustOracleError::InvalidTrustScore)
ValidTrustScore(trust_score) == trust_score <= MaxTrustScore

trust_oracle_update_WalletFromOracle(account, oracle, wallet, trust_score, risk_level, now) ==
    IF trust_score > MaxTrustScore
    THEN [err |-> "InvalidTrustScore", account |-> account]
    ELSE [err |-> "Ok",
          account |-> [wallet_pubkey |-> oracle,
                       trust_score |-> trust_score,
                       risk_level |-> RiskLevelSerialize(risk_level),
                       last_updated |-> now,
                       oracle_pubkey |-> oracle]]

trust_oracle_update_StampOnCreate(account, oracle, wallet, trust_score, risk_level, now) ==
    IF trust_score > MaxTrustScore
    THEN [err |-> "InvalidTrustScore", account |-> account]
    ELSE [err |-> "Ok",
          account |-> [wallet_pubkey |-> wallet,
                       trust_score |-> trust_score,
                       risk_level |-> RiskLevelSerialize(risk_level),
                       last_updated |-> IF account.last_updated = 0
                                        THEN now ELSE account.last_updated,
                       oracle_pubkey |-> oracle]]

trust_oracle_update_NoRisk(account, oracle, wallet, trust_score, risk_level, now) ==
    IF trust_score > MaxTrustScore
    THEN [err |-> "InvalidTrustScore", account |-> account]
    ELSE [err |-> "Ok",
          account |-> [wallet_pubkey |-> wallet,
                       trust_score |-> trust_score,
                       risk_level |-> account.risk_level,
                       last_updated |-> now,
                       oracle_pubkey |-> oracle]]

\* Body of trust_oracle::update_trust_score on the loaded account.
trust_oracle_update(account, oracle, wallet, trust_score, risk_level, now) ==
    IF ~ValidTrustScore(trust_score)
    THEN [err |-> "InvalidTrustScore", account |-> account]
    ELSE [err |-> "Ok",
          account |-> [wallet_pubkey |-> wallet,
                       trust_score |-> trust_score,
                       risk_level |-> RiskLevelSerialize(risk_level),
                       last_updated |-> now,
                       oracle_pubkey |-> oracle]]

blockid_oracle_update_NoRisk(acct, wallet, score, risk, now) ==
    [err |-> "Ok",
     account |-> [wallet |-> wallet, score |-> score, risk |-> acct.risk,
                  updated_at |-> now]]

blockid_oracle_update_NoClock(acct, wallet, score, risk, now) ==
    [err |-> "Ok",
     account |-> [wallet |-> wallet, score |-> score, risk |-> risk,
                  updated_at |-> acct.updated_at]]

\* Body of blockid_oracle::update_trust_score on the loaded account.
blockid_oracle_update(acct, wallet, score, risk, now) ==
    [err |-> "Ok",
     account |-> [wallet |-> wallet, score |-> score, risk |-> risk,
                  updated_at |-> now]]

\* The handler of the program under run.
Handler(program, account, oracle, wallet, score, risk, now) ==
    IF program = "trust_oracle"
    THEN trust_oracle_update(account, oracle, wallet, score,
                             RiskLevelDeserialize(risk), now)
    ELSE blockid_oracle_update(account, wallet, score, risk, now)

Commit_NoRollback(before, after, err) == after

\* A transaction's effect on the accounts: the writes of an instruction that
\* returned Ok persist, those of a failed one (account creation included)
\* are discarded.
Commit(before, after, err) == IF err = "Ok" THEN after ELSE before

\* One update_trust_score instruction, from entry to the end of the
\* transaction: [err, accounts].
ProcessUpdate(program, accounts, now, oracle, wallet, addr, signed, score, risk) ==
    LET e1 == DeserializeArgs(program, score, risk)
        e2 == UpdateAccountsCheck(oracle, wallet, addr, signed)
    IN  IF e1 # "Ok" THEN [err |-> e1, accounts |-> Commit(accounts, accounts, e1)]
        ELSE IF e2 # "Ok" THEN [err |-> e2, accounts |-> Commit(accounts, accounts, e2)]
        ELSE LET loaded == InitIfNeeded(program, accounts, addr)
                 res == Handler(program, loaded[addr], oracle, wallet, score, risk, now)
                 written == WithAccount(loaded, addr, res.account)
             IN  [err |-> res.err, accounts |-> Commit(accounts, written, res.err)]

(* ----------------------------- get_trust_score ------------------------- *)

GetProgramAddress_SwappedSeeds(oracle, wallet) == <<"trust_score", wallet, oracle>>

\* GetTrustScore's own seeds:
\* [b"trust_score", oracle.key().as_ref(), wallet.key().as_ref()].
GetProgramAddress(oracle, wallet) == <<"trust_score", oracle, wallet>>

GetAccountsCheck_NoInitCheck(accounts, oracle, wallet, addr) ==
    IF addr # GetProgramAddress(oracle, wallet) THEN "ConstraintSeeds" ELSE "Ok"

\* Accounts validation of GetTrustScore: trust_score_account must hold an
\* initialized TrustScoreAccount at the address derived from (oracle, wallet).
GetAccountsCheck(accounts, oracle, wallet, addr) ==
    IF addr \notin DOMAIN accounts THEN "AccountNotInitialized"
    ELSE IF addr # GetProgramAddress(oracle, wallet) THEN "ConstraintSeeds"
    ELSE "Ok"

\* One get_trust_score instruction: the handler is Ok(()) and writes nothing.
ProcessGet(accounts, oracle, wallet, addr) ==
    LET e == GetAccountsCheck(accounts, oracle, wallet, addr)
    IN  [err |-> e, accounts |-> Commit(accounts, accounts, e)]

(* --------------------------- fields of a record ------------------------ *)

AccountScore(program, acct) ==
    IF program = "trust_oracle" THEN acct.trust_score ELSE acct.score

AccountRisk(program, acct) ==
    IF program = "trust_oracle" THEN acct.risk_level ELSE acct.risk

AccountWallet(program, acct) ==
    IF program = "trust_oracle" THEN acct.wallet_pubkey ELSE acct.wallet

AccountLastUpdated(program, acct) ==
    IF program = "trust_oracle" THEN acct.last_updated ELSE acct.updated_at

(* ------------------------------ state machine -------------------------- *)

NoCall ==
    [op |-> "none", oracle |-> DefaultPubkey, wallet |-> DefaultPubkey,
     addr |-> <<>>, signed |-> FALSE, score |-> 0, risk |-> 0,
     err |-> "Ok", existed |-> FALSE, same |-> FALSE]

Init ==
    /\ prog \in Programs
    /\ store = <<>>
    /\ clock = 1
    /\ ncalls = 0
    /\ last = NoCall
    /\ prior = <<>>

\* A transaction invoking update_trust_score.
update_trust_score(oracle, wallet, addr, signed, score, risk) ==
    /\ ncalls < MaxCalls
    /\ LET res == ProcessUpdate(prog, store, clock, oracle, wallet, addr,
                                signed, score, risk)
       IN  /\ store' = res.accounts
           /\ last' = [op |-> "update", oracle |-> oracle, wallet |-> wallet,
                       addr |-> addr, signed |-> signed, score |-> score,
                       risk |-> risk, err |-> res.err,
                       existed |-> addr \in DOMAIN store,
                       same |-> /\ last.op = "update"
                                /\ last.err = "Ok"
                                /\ res.err = "Ok"
                                /\ last.oracle = oracle
                                /\ last.wallet = wallet
                                /\ last.score = score
                                /\ last.risk = risk]
    /\ prior' = store
    /\ ncalls' = ncalls + 1
    /\ UNCHANGED <<prog, clock>>

\* A transaction invoking get_trust_score (trust_oracle only).
get_trust_score(oracle, wallet, addr) ==
    /\ ncalls < MaxCalls
    /\ prog = "trust_oracle"
    /\ LET res == ProcessGet(store, oracle, wallet, addr)
       IN  /\ store' = res.accounts
           /\ last' = [op |-> "get", oracle |-> oracle, wallet |-> wallet,
                       addr |-> addr, signed |-> FALSE, score |-> 0,
                       risk |-> 0, err |-> res.err,
                       existed |-> addr \in DOMAIN store, same |-> FALSE]
    /\ prior' = store
    /\ ncalls' = ncalls + 1
    /\ UNCHANGED <<prog, clock>>

\* The host clock advances; it never goes back.
Tick ==
    /\ clock < MaxClock
    /\ clock' = clock + 1
    /\ UNCHANGED <<prog, store, ncalls, last, prior>>

Next ==
    \/ \E oracle \in Oracles, wallet \in Wallets, addr \in Addresses,
          signed \in BOOLEAN, score \in ScoreSamples, risk \in RiskSamples :
            update_trust_score(oracle, wallet, addr, signed, score, risk)
    \/ \E oracle \in Oracles, wallet \in Wallets, addr \in Addresses :
            get_trust_score(oracle, wallet, addr)
    \/ Tick

Spec == Init /\ [][Next]_vars

(* ------------------------------- properties ---------------------------- *)

\* The step processes a transaction (Tick does not).
IsCall == ncalls' = ncalls + 1

\* The call reaches the handler's own checks: the oracle signed, the supplied
\* account is the one derived from (oracle, wallet), the risk byte is one of
\* the RiskLevel variants.
WellFormed(call) ==
    /\ call.op = "update"
    /\ call.signed
    /\ call.addr = FindProgramAddress(call.oracle, call.wallet)
    /\ call.risk \in 0..3

\* The record of the pair (o, w) is the same before and after the step.
PairUnchanged(o, w) ==
    LET a == FindProgramAddress(o, w)
    IN  /\ (a \in DOMAIN store) <=> (a \in DOMAIN store')
        /\ a \in DOMAIN store => store'[a] = store[a]

\* C1: in every reachable state every allocated record has score in
\* [0,100], in both programs.  (Fails: blockid_oracle stores any u8.)
C1_ScoreInRange ==
    \A a \in DOMAIN store : AccountScore(prog, store[a]) \in 0..100

C3_ValidUpdateStored ==
    [][(IsCall /\ WellFormed(last') /\ last'.score \in 0..100)
        => /\ last'.err = "Ok"
           /\ last'.addr \in DOMAIN store'
           /\ AccountScore(prog, store'[last'.addr]) = last'.score
           /\ AccountRisk(prog, store'[last'.addr]) = last'.risk
           /\ AccountWallet(prog, store'[last'.addr]) = last'.wallet
           /\ AccountLastUpdated(prog, store'[last'.addr]) = clock]_vars

\* C3 witness: a valid update overwrote an existing record with a risk other
\* than the default one.
C3_Witness ==
    /\ WellFormed(last)
    /\ last.err = "Ok"
    /\ last.existed
    /\ last.risk = 3
    /\ AccountRisk(prog, store[last.addr]) = 3

\* C4: an update signed by O2 that targets an existing record whose stored
\* oracle is O1 # O2 fails with UnauthorizedOracle and leaves the record
\* unchanged.  (Fails: the call is rejected by the seeds constraint, and
\* UnauthorizedOracle is never returned.)
C4_UnauthorizedOracle ==
    [][(IsCall /\ prog = "trust_oracle" /\ last'.op = "update"
            /\ last'.signed /\ last'.risk \in 0..3 /\ last'.score \in 0..100
            /\ last'.addr \in DOMAIN store
            /\ store[last'.addr].oracle_pubkey # last'.oracle)
        => /\ last'.err = "UnauthorizedOracle"
           /\ store' = store]_vars

\* C5: an update_trust_score call that fails, for whatever reason, leaves
\* the whole store unchanged.
C5_FailedUpdateNoChange ==
    [][(IsCall /\ last'.op = "update" /\ last'.err # "Ok")
        => store' = store]_vars

\* C5 witness: an unsigned update aimed at an existing record was rejected.
C5_Witness ==
    /\ last.op = "update"
    /\ last.err = "AccountNotSigner"
    /\ last.existed
    /\ last.addr \in DOMAIN store

\* C6: a record that exists exists in every later state.
C6_RecordsPersist ==
    [][\A a \in DOMAIN store : a \in DOMAIN store']_vars

\* C6 witness: a record created by the first call is still there after a
\* second, failing, call aimed at it.
C6_Witness ==
    /\ ncalls = 2
    /\ last.op = "update"
    /\ last.err = "InvalidTrustScore"
    /\ last.existed
    /\ last.addr \in DOMAIN store

\* C7 (as stated): the second of two successive identical successful updates
\* leaves wallet, score and risk as they were and makes last_updated
\* strictly greater.  (Fails: both calls may read the same clock value.)
C7_StrictlyLater ==
    [][(IsCall /\ last'.same)
        => /\ AccountWallet(prog, store'[last'.addr]) = AccountWallet(prog, store[last'.addr])
           /\ AccountScore(prog, store'[last'.addr]) = AccountScore(prog, store[last'.addr])
           /\ AccountRisk(prog, store'[last'.addr]) = AccountRisk(prog, store[last'.addr])
           /\ AccountLastUpdated(prog, store'[last'.addr])
                > AccountLastUpdated(prog, store[last'.addr])]_vars

\* C7 (amended): the second of two successive identical successful updates
\* leaves wallet, score, risk and (in trust_oracle) oracle as they were, and
\* sets last_updated to the clock at the second call, which is greater than
\* or equal to the value left by the first.
C7_NotEarlier ==
    [][(IsCall /\ last'.same)
        => /\ AccountWallet(prog, store'[last'.addr]) = AccountWallet(prog, store[last'.addr])
           /\ AccountScore(prog, store'[last'.addr]) = AccountScore(prog, store[last'.addr])
           /\ AccountRisk(prog, store'[last'.addr]) = AccountRisk(prog, store[last'.addr])
           /\ prog = "trust_oracle" =>
                store'[last'.addr].oracle_pubkey = store[last'.addr].oracle_pubkey
           /\ AccountLastUpdated(prog, store'[last'.addr]) = clock
           /\ AccountLastUpdated(prog, store'[last'.addr])
                >= AccountLastUpdated(prog, store[last'.addr])]_vars

\* C7 witness: the second of two identical successful updates has been
\* applied, after the clock advanced.
C7_Witness ==
    /\ last.same
    /\ last.existed
    /\ AccountLastUpdated(prog, store[last.addr]) = 2

\* C8: get_trust_score changes no record; called for a pair with its derived
\* address it succeeds when the record exists and fails with the
\* not-initialized error (the spec's NotFound) when it does not.
C8_GetReadsOnly ==
    [][(IsCall /\ last'.op = "get")
        => /\ store' = store
           /\ last'.addr = FindProgramAddress(last'.oracle, last'.wallet)
                => /\ last'.addr \in DOMAIN store => last'.err = "Ok"
                   /\ last'.addr \notin DOMAIN store
                        => last'.err = "AccountNotInitialized"]_vars

\* C8 witness: a get for a pair that was never updated failed while another
\* pair's record exists.
C8_Witness ==
    /\ last.op = "get"
    /\ last.addr = FindProgramAddress(last.oracle, last.wallet)
    /\ last.err = "AccountNotInitialized"
    /\ DOMAIN store # {}

\* C9: in every reachable state the risk field of every record is one of
\* 0..3, in both programs.  (Fails: blockid_oracle stores any u8.)
C9_RiskDefined ==
    \A a \in DOMAIN store : AccountRisk(prog, store[a]) \in 0..3

\* C10: a successful update for (O, W) leaves the record of every other
\* pair unchanged.
C10_OtherPairsUnchanged ==
    [][(IsCall /\ last'.op = "update" /\ last'.err = "Ok")
        => \A o \in Oracles, w \in Wallets :
             <<o, w>> # <<last'.oracle, last'.wallet>> => PairUnchanged(o, w)]_vars

\* C10 witness: after a successful update one wallet has a record under each
\* of the two oracles.
C10_Witness ==
    /\ last.op = "update"
    /\ last.err = "Ok"
    /\ \E w \in Wallets :
         /\ FindProgramAddress("O1", w) \in DOMAIN store
         /\ FindProgramAddress("O2", w) \in DOMAIN store
         /\ FindProgramAddress("O1", w) # FindProgramAddress("O2", w)

\* C11: an update_trust_score call whose oracle has not signed fails with
\* UnauthorizedOracle and changes no record.  (Fails: the Signer check
\* rejects it with AccountNotSigner; UnauthorizedOracle is never returned.)
C11_UnsignedUnauthorized ==
    [][(IsCall /\ prog = "trust_oracle" /\ last'.op = "update"
            /\ ~last'.signed /\ last'.risk \in 0..3)
        => /\ last'.err = "UnauthorizedOracle"
           /\ store' = store]_vars

\* The update_trust_score call c, processed on accounts at clock reading now.
Replay(accounts, now, c) ==
    ProcessUpdate(prog, accounts, now, c.oracle, c.wallet, c.addr, c.signed,
                  c.score, c.risk)

\* The clock readings the latest call may have made: the one its record
\* holds if it succeeded, any reading up to now if it failed.
ReadingsOfLast ==
    IF last.err = "Ok"
    THEN {AccountLastUpdated(prog, store[last.addr])}
    ELSE 1..clock

\* C12: two update_trust_score calls on different (oracle, wallet) pairs
\* commute: processed in the other order from the same starting state, each
\* with its own clock reading, they give the same final store and each call
\* the same outcome.
C12_DifferentPairsCommute ==
    [][(IsCall /\ last.op = "update" /\ last'.op = "update"
            /\ <<last.oracle, last.wallet>> # <<last'.oracle, last'.wallet>>)
        => \A t1 \in ReadingsOfLast :
             LET first == Replay(prior, clock, last')
                 second == Replay(first.accounts, t1, last)
             IN  /\ second.accounts = store'
                 /\ first.err = last'.err
                 /\ second.err = last.err]_vars

\* C12 witness: two successful updates on different pairs, one after the
\* other, each creating its record.
C12_Witness ==
    /\ ncalls = 2
    /\ last.op = "update"
    /\ last.err = "Ok"
    /\ ~last.existed
    /\ Cardinality(DOMAIN prior) = 1
    /\ Cardinality(DOMAIN store) = 2

\* The error of the first failing check in the order address, score, risk,
\* signature.
ErrorInStatedOrder(c) ==
    IF c.addr # FindProgramAddress(c.oracle, c.wallet) THEN "ConstraintSeeds"
    ELSE IF c.score > 100 THEN "InvalidTrustScore"
    ELSE IF c.risk \notin 0..3 THEN "InstructionDidNotDeserialize"
    ELSE IF ~c.signed THEN "AccountNotSigner"
    ELSE "Ok"

\* The error of the first failing check in the order risk, signature,
\* address, score.
ErrorInRunOrder(c) ==
    IF c.risk \notin 0..3 THEN "InstructionDidNotDeserialize"
    ELSE IF ~c.signed THEN "AccountNotSigner"
    ELSE IF c.addr # FindProgramAddress(c.oracle, c.wallet) THEN "ConstraintSeeds"
    ELSE IF c.score > 100 THEN "InvalidTrustScore"
    ELSE "Ok"

\* C13 (as stated): update_trust_score of trust_oracle checks the address,
\* then the score, then the risk, then the signature, and returns the error
\* of the first failing check; a call with score > 100 and an undefined risk
\* fails with InvalidTrustScore.  (Fails: the risk byte is rejected when the
\* instruction is deserialized, before any other check.)
C13_StatedOrder ==
    [][(IsCall /\ prog = "trust_oracle" /\ last'.op = "update")
        => last'.err = ErrorInStatedOrder(last')]_vars

\* C13 (amended): update_trust_score of trust_oracle checks the risk byte,
\* then the signature, then the address, then the score, and returns the
\* error of the first failing check: score > 100 with an undefined risk
\* fails with the deserialization error, a mismatched address with
\* score > 100 fails with the address error.
C13_RunOrder ==
    [][(IsCall /\ prog = "trust_oracle" /\ last'.op = "update")
        => last'.err = ErrorInRunOrder(last')]_vars

\* C13 witness: a signed call with a mismatched address and score > 100 was
\* rejected with the address error.
C13_Witness ==
    /\ prog = "trust_oracle"
    /\ last.op = "update"
    /\ last.signed
    /\ last.score > 100
    /\ last.addr # FindProgramAddress(last.oracle, last.wallet)
    /\ last.err = "ConstraintSeeds"

\* C14: in trust_oracle the oracle field of a record is set, to the signer,
\* by the update that creates the record, and no later step changes it.
C14_OracleFieldFixed ==
    [][prog = "trust_oracle"
        => /\ \A a \in DOMAIN store :
                /\ a \in DOMAIN store'
                /\ store'[a].oracle_pubkey = store[a].oracle_pubkey
           /\ \A a \in (DOMAIN store') \ (DOMAIN store) :
                /\ IsCall
                /\ store'[a].oracle_pubkey = last'.oracle]_vars

\* C14 witness: a second successful update changed an existing record and
\* its oracle field is still the one it was created with.
C14_Witness ==
    /\ prog = "trust_oracle"
    /\ last.op = "update"
    /\ last.err = "Ok"
    /\ last.existed
    /\ store[last.addr] # prior[last.addr]
    /\ store[last.addr].oracle_pubkey = prior[last.addr].oracle_pubkey

\* C15: of two update_trust_score calls by the same oracle for the same
\* wallet, processed one after the other, the one serialized last decides
\* the record: if it succeeds the record holds its score, risk and clock
\* reading and nothing of the earlier call; if it is rejected the record is
\* as the earlier call left it.
C15_LastWriterWins ==
    [][(IsCall /\ last.op = "update" /\ last'.op = "update"
            /\ WellFormed(last) /\ last.err = "Ok"
            /\ last'.oracle = last.oracle /\ last'.wallet = last.wallet
            /\ last'.signed /\ last'.addr = last.addr)
        => /\ last'.err = "Ok" =>
                /\ AccountScore(prog, store'[last.addr]) = last'.score
                /\ AccountRisk(prog, store'[last.addr]) = last'.risk
                /\ AccountLastUpdated(prog, store'[last.addr]) = clock
                /\ AccountWallet(prog, store'[last.addr]) = last'.wallet
           /\ last'.err # "Ok" =>
                /\ store'[last.addr] = store[last.addr]
                /\ AccountScore(prog, store'[last.addr]) = last.score
                /\ AccountRisk(prog, store'[last.addr]) = last.risk]_vars

\* C15 witness: two successful updates of one pair at the same clock
\* reading, with different risks; the record holds the second one's.
C15_Witness ==
    /\ last.op = "update"
    /\ last.err = "Ok"
    /\ last.existed
    /\ AccountLastUpdated(prog, prior[last.addr]) = clock
    /\ AccountRisk(prog, prior[last.addr]) # last.risk
    /\ AccountRisk(prog, store[last.addr]) = last.risk
    /\ AccountLastUpdated(prog, store[last.addr]) = clock

\* The step is a successful update_trust_score for the pair whose record is
\* at address a.
UpdatedAt(a) ==
    /\ IsCall
    /\ last'.op = "update"
    /\ last'.err = "Ok"
    /\ a = FindProgramAddress(last'.oracle, last'.wallet)

\* C16: with a clock that never decreases, last_updated of a record never
\* decreases, changes only in a successful update_trust_score for the
\* record's pair, and after such an update equals the clock value it read.
C16_LastUpdatedFollowsClock ==
    [][\A a \in DOMAIN store' :
         /\ UpdatedAt(a) => AccountLastUpdated(prog, store'[a]) = clock
         /\ ~UpdatedAt(a) =>
              /\ a \in DOMAIN store
              /\ AccountLastUpdated(prog, store'[a])
                   = AccountLastUpdated(prog, store[a])
         /\ a \in DOMAIN store =>
              AccountLastUpdated(prog, store'[a])
                >= AccountLastUpdated(prog, store[a])]_vars

\* C16 witness: a record written at clock 1 was written again at clock 2.
C16_Witness ==
    /\ last.op = "update"
    /\ last.err = "Ok"
    /\ last.existed
    /\ AccountLastUpdated(prog, prior[last.addr]) = 1
    /\ AccountLastUpdated(prog, store[last.addr]) = 2

\* C17: the address is a function of the seed tuple alone and distinct
\* (oracle, wallet) pairs have distinct addresses; get_trust_score derives
\* it as update_trust_score does, so a get succeeds exactly when the account
\* it is given is the record update_trust_score wrote for the same oracle
\* and wallet.
C17_SameDerivation ==
    [][/\ \A o1 \in Oracles, o2 \in Oracles, w1 \in Wallets, w2 \in Wallets :
            FindProgramAddress(o1, w1) = FindProgramAddress(o2, w2)
                => <<o1, w1>> = <<o2, w2>>
       /\ (IsCall /\ last'.op = "get")
            => (last'.err = "Ok"
                  <=> /\ last'.addr \in DOMAIN store
                      /\ store[last'.addr].oracle_pubkey = last'.oracle
                      /\ store[last'.addr].wallet_pubkey = last'.wallet)]_vars

\* C17 witness: after an update for one pair, a get naming another pair was
\* given the first pair's record and was refused.
C17_Witness ==
    /\ last.op = "get"
    /\ last.addr \in DOMAIN store
    /\ store[last.addr].oracle_pubkey = last.oracle
    /\ store[last.addr].wallet_pubkey # last.wallet
    /\ last.err = "ConstraintSeeds"

\* C18: in every reachable state every allocated account is the one derived
\* from some (O, W), and the record at the address derived from (O, W) has
\* wallet = W and, in trust_oracle, oracle = O.
C18_FieldsMatchAddress ==
    /\ DOMAIN store \subseteq Addresses
    /\ \A o \in Oracles, w \in Wallets :
         FindProgramAddress(o, w) \in DOMAIN store
           => /\ AccountWallet(prog, store[FindProgramAddress(o, w)]) = w
              /\ prog = "trust_oracle"
                   => store[FindProgramAddress(o, w)].oracle_pubkey = o

\* C18 witness: trust_oracle holds the records of (O1, W1) and (O2, W2),
\* each with its own wallet and oracle.
C18_Witness ==
    /\ prog = "trust_oracle"
    /\ FindProgramAddress("O1", "W1") \in DOMAIN store
    /\ FindProgramAddress("O2", "W2") \in DOMAIN store
    /\ store[FindProgramAddress("O2", "W2")].wallet_pubkey = "W2"
    /\ store[FindProgramAddress("O2", "W2")].oracle_pubkey = "O2"

\* C19: a record comes to exist for (O, W) only in a successful
\* update_trust_score signed by O for wallet W: no failed update, no
\* get_trust_score and no call by another identity allocates it; and a
\* successful update for a pair that has a record allocates nothing, so
\* there is one record per pair.
C19_CreatedOnlyByOwnUpdate ==
    [][/\ \A a \in (DOMAIN store') \ (DOMAIN store) :
            /\ IsCall
            /\ last'.op = "update"
            /\ last'.err = "Ok"
            /\ last'.signed
            /\ a = last'.addr
            /\ a = FindProgramAddress(last'.oracle, last'.wallet)
       /\ (IsCall /\ last'.addr \in DOMAIN store)
            => DOMAIN store' = DOMAIN store
       /\ Cardinality(DOMAIN store') <= Cardinality(Oracles \X Wallets)]_vars

\* C19 witness: the only record there is was created by the latest call, a
\* successful signed update for its pair, after a call that created nothing.
C19_Witness ==
    /\ ncalls = 2
    /\ last.op = "update"
    /\ last.err = "Ok"
    /\ last.signed
    /\ ~last.existed
    /\ prior = <<>>
    /\ DOMAIN store = {FindProgramAddress(last.oracle, last.wallet)}

====
